---- MODULE Spec2Model ----
(***************************************************************************)
(* Model of scripts/parse_data.py: the sparse year-by-month decoder        *)
(* (extract_route_values and its helpers) and the batch driver (main)      *)
(* that merges the decoded routes into one table.                          *)
(*                                                                         *)
(* JSON values are tagged records [t |-> tag, v |-> payload].  A Python    *)
(* str is a sequence of one-character strings, so that parsing, ordering   *)
(* and formatting are computed character by character.  A number with a    *)
(* fractional part is kept in units of 10^-5 (Scale).                      *)
(***************************************************************************)
EXTENDS Integers, Sequences, FiniteSets, TLC

VARIABLES
    \* ---- main(): the batch driver
    file_paths,        \* sorted(glob.glob(args.input)), each path with what
                       \* the file holds (0: unreadable or not JSON, else the
                       \* index of a document)
    as_percent,        \* args.as_percent
    pc,                \* position of main()
    fi,                \* index (1-based) of the next file of the first loop
    all_years,         \* all_years
    canonical_months,  \* canonical_months (NoMonths stands for None)
    per_route_rows,    \* per_route_rows
    header,            \* header (<<>> until build_header has returned)
    out_header,        \* the header row written to the output (<<>>: none)
    out_rows,          \* the data rows written to the output
    skipped,           \* the paths reported as skipped
    error,             \* the call whose exception ended main ("none")
    \* ---- extract_route_values(): one call, walked iteration by iteration
    d_pc,              \* position inside extract_route_values
    ds,                \* the document decoded (its index in AxesChoices)
    years,             \* years
    months,            \* months
    n_entries,         \* month entries taken from month_entries so far
    m_entry,           \* the G0 part of the month entry being decoded
    x_src,             \* its X: the items still to come, or drawn lazily
    month_name,        \* month_name
    x_pos,             \* x_pos of the next iteration
    offset,            \* offset
    values,            \* values
    last,              \* what the latest iteration of the inner loop did
    prev               \* year_idx of the latest earlier iteration that had one

mainvars == <<file_paths, as_percent, pc, fi, all_years, canonical_months,
              per_route_rows, header, out_header, out_rows, skipped, error>>
decvars  == <<d_pc, ds, years, months, n_entries, m_entry, x_src, month_name,
              x_pos, offset, values, last, prev>>
vars     == <<mainvars, decvars>>

\* ------------------------------------------------------------------ bounds
MaxFiles   == 2     \* files matched by the glob
MaxEntries == 2     \* month entries walked by one decode call
MaxX       == 3     \* items of one X list
Scale      == 10^5  \* a float f is kept as the integer f * Scale

\* ------------------------------------------------------------- JSON values
JNull        == [t |-> "null"]
JNonFinite   == [t |-> "nonfinite"]             \* NaN / Infinity literal
JBool(b)     == [t |-> "bool",  v |-> b]
JInt(n)      == [t |-> "int",   v |-> n]
JFloat(u)    == [t |-> "float", v |-> u]        \* the float u / Scale
JStr(s)      == [t |-> "str",   v |-> s]
JList(xs)    == [t |-> "list",  v |-> xs]
JDict(kvs)   == [t |-> "dict",  v |-> kvs]      \* insertion-ordered pairs
KV(k, val)   == [k |-> k, v |-> val]

Max(a, b) == IF a >= b THEN a ELSE b
Range(s)  == {s[i] : i \in 1..Len(s)}

\* Python truthiness (`dm1 or []`).
Truthy(j) ==
    CASE j.t = "null"      -> FALSE
      [] j.t = "bool"      -> j.v
      [] j.t = "int"       -> j.v # 0
      [] j.t = "float"     -> j.v # 0
      [] j.t = "nonfinite" -> TRUE
      [] j.t \in {"str", "list", "dict"} -> Len(j.v) > 0

\* isinstance(j, int): bool is a subclass of int.
IsInt(j)  == j.t \in {"int", "bool"}
IntVal(j) == IF j.t = "bool" THEN (IF j.v THEN 1 ELSE 0) ELSE j.v

\* k in d, d[k] and d.get(k, default) for a dict d.
HasKey(d, k) == \E i \in 1..Len(d.v) : d.v[i].k = k
DictGet(d, k) == d.v[CHOOSE i \in 1..Len(d.v) : d.v[i].k = k].v
DictGetOr(d, k, default) == IF HasKey(d, k) THEN DictGet(d, k) ELSE default

\* Result of a call that may raise.
Raised  == [ok |-> FALSE]
Ok(val) == [ok |-> TRUE, val |-> val]

\* The items a for loop / sorted() / enumerate() draws from j: the elements
\* of a list, the keys of a dict, the characters of a str; anything else is
\* not iterable (TypeError).
Iterate(j) ==
    CASE j.t = "list" -> Ok(j.v)
      [] j.t = "dict" -> Ok([i \in 1..Len(j.v) |-> JStr(j.v[i].k)])
      [] j.t = "str"  -> Ok([i \in 1..Len(j.v) |-> JStr(<<j.v[i]>>)])
      [] OTHER        -> Raised

\* ------------------------------------------------------------------ strings
Digits == <<"0", "1", "2", "3", "4", "5", "6", "7", "8", "9">>
IsDigit(c)  == \E i \in 1..10 : Digits[i] = c
DigitVal(c) == (CHOOSE i \in 1..10 : Digits[i] = c) - 1

\* The characters of the model in code-point order.
CharOrder == <<" ", ",", "-", ".", "0", "1", "2", "3", "4", "5", "6", "7",
               "8", "9", "A", "D", "F", "J", "M", "N", "O", "R", "S", "T",
               "a", "b", "c", "e", "g", "l", "n", "o", "p", "r", "t", "u",
               "v", "x", "y">>
Ord(c) == CHOOSE i \in 1..Len(CharOrder) : CharOrder[i] = c

\* s < t for two str (lexicographic by code point).
RECURSIVE StrLess(_, _)
StrLess(s, t) ==
    IF t = <<>> THEN FALSE
    ELSE IF s = <<>> THEN TRUE
    ELSE IF Head(s) = Head(t) THEN StrLess(Tail(s), Tail(t))
    ELSE Ord(Head(s)) < Ord(Head(t))

RECURSIVE NatToStr(_)
NatToStr(n) ==
    IF n < 10 THEN <<Digits[n + 1]>>
    ELSE NatToStr(n \div 10) \o <<Digits[(n % 10) + 1]>>

\* str(j) and the f-string rendering {j} of a value.
PyStr(j) ==
    CASE j.t = "str"  -> j.v
      [] j.t = "int"  -> IF j.v < 0 THEN <<"-">> \o NatToStr(-j.v) ELSE NatToStr(j.v)
      [] j.t = "bool" -> IF j.v THEN <<"T", "r", "u", "e">> ELSE <<"F", "a", "l", "s", "e">>
      [] j.t = "null" -> <<"N", "o", "n", "e">>

\* s.strip() for the one whitespace character of the model.
RECURSIVE LStrip(_)
LStrip(s) == IF s # <<>> /\ Head(s) = " " THEN LStrip(Tail(s)) ELSE s
RECURSIVE RStrip(_)
RStrip(s) == IF s # <<>> /\ s[Len(s)] = " " THEN RStrip(SubSeq(s, 1, Len(s) - 1)) ELSE s
Strip(s) == RStrip(LStrip(s))

RECURSIVE DigitsVal(_)
DigitsVal(s) == IF s = <<>> THEN 0 ELSE DigitsVal(SubSeq(s, 1, Len(s) - 1)) * 10 + DigitVal(s[Len(s)])
AllDigits(s) == \A i \in 1..Len(s) : IsDigit(s[i])

\* Position of the first c in s, 0 when absent.
IndexOf(s, c) == IF \E i \in 1..Len(s) : s[i] = c
                 THEN CHOOSE i \in 1..Len(s) : s[i] = c /\ \A j \in 1..(i - 1) : s[j] # c
                 ELSE 0

\* s.replace(c, "")
RECURSIVE RemoveChar(_, _)
RemoveChar(s, c) ==
    IF s = <<>> THEN <<>>
    ELSE IF Head(s) = c THEN RemoveChar(Tail(s), c)
    ELSE <<Head(s)>> \o RemoveChar(Tail(s), c)

\* An optional leading minus sign.
IsNeg(b)  == Len(b) > 0 /\ Head(b) = "-"
Unsign(b) == IF IsNeg(b) THEN Tail(b) ELSE b

\* int(s) for a str: surrounding whitespace, an optional sign, then digits.
ParseDigits(neg, d) ==
    IF Len(d) > 0 /\ AllDigits(d)
    THEN Ok(IF neg THEN -DigitsVal(d) ELSE DigitsVal(d))
    ELSE Raised
ParseIntStripped(b) == ParseDigits(IsNeg(b), Unsign(b))
ParseInt(s) == ParseIntStripped(Strip(s))

\* float(s) for a str, in units of 1/Scale: surrounding whitespace, an
\* optional sign, digits with an optional fraction, an optional exponent.
\* Anything else raises ValueError.  (inf/nan spellings parse to non-finite
\* floats, which coerce_numeric rejects as it rejects a ValueError.)
ShiftDigits(m, p) == IF p >= 0 THEN m * 10^p ELSE m \div 10^(-p)
ScaleDigits(ip, fp, k) ==
    IF AllDigits(ip) /\ AllDigits(fp) /\ Len(ip) + Len(fp) > 0
    THEN Ok(ShiftDigits(DigitsVal(ip \o fp), 5 - Len(fp) + k))
    ELSE Raised
ParseDecimal(mant, dot, k) ==
    IF dot = 0 THEN ScaleDigits(mant, <<>>, k)
    ELSE ScaleDigits(SubSeq(mant, 1, dot - 1), SubSeq(mant, dot + 1, Len(mant)), k)
ParseMantissa(mant, k) ==
    IF ~k.ok THEN Raised ELSE ParseDecimal(mant, IndexOf(mant, "."), k.val)
ParseExponent(t) ==
    IF Len(t) = 0 \/ Head(t) = " " \/ t[Len(t)] = " " THEN Raised
    ELSE ParseIntStripped(t)
ParseMantExp(u, e) ==
    IF e = 0 THEN ParseMantissa(u, Ok(0))
    ELSE ParseMantissa(SubSeq(u, 1, e - 1), ParseExponent(SubSeq(u, e + 1, Len(u))))
ParseUnsigned(u) == ParseMantExp(u, IndexOf(u, "e"))
Signed(neg, r) == IF r.ok /\ neg THEN Ok(-r.val) ELSE r
ParseFloatStripped(b) == Signed(IsNeg(b), ParseUnsigned(Unsign(b)))
ParseFloat(s) == ParseFloatStripped(Strip(s))

\* -------------------------------------------------------------- dict keys
Key ==
    [results |-> <<"r", "e", "s", "u", "l", "t", "s">>,
     result |-> <<"r", "e", "s", "u", "l", "t">>,
     data |-> <<"d", "a", "t", "a">>,
     dsr |-> <<"d", "s", "r">>,
     DS |-> <<"D", "S">>,
     SH |-> <<"S", "H">>,
     PH |-> <<"P", "H">>,
     DM1 |-> <<"D", "M", "1">>,
     DM0 |-> <<"D", "M", "0">>,
     ValueDicts |-> <<"V", "a", "l", "u", "e", "D", "i", "c", "t", "s">>,
     D0 |-> <<"D", "0">>,
     G0 |-> <<"G", "0">>,
     G1 |-> <<"G", "1">>,
     X |-> <<"X">>,
     I |-> <<"I">>,
     M0 |-> <<"M", "0">>,
     M1 |-> <<"M", "1">>,
     C |-> <<"C">>]

\* ------------------------------------------------------------- get_nested
\* keys: JStr(k) for a dict key, JInt(i) for a list index.
RECURSIVE get_nested(_, _, _)
get_nested(d, keys, default) ==
    IF Len(keys) = 0 THEN d
    ELSE IF Head(keys).t = "int"
         THEN IF d.t # "list" \/ Head(keys).v >= Len(d.v) THEN default
              ELSE get_nested(d.v[Head(keys).v + 1], Tail(keys), default)
         ELSE IF d.t # "dict" \/ ~HasKey(d, Head(keys).v) THEN default
              ELSE get_nested(DictGet(d, Head(keys).v), Tail(keys), default)

PathDS  == <<JStr(Key.results), JInt(0), JStr(Key.result), JStr(Key.data), JStr(Key.dsr),
             JStr(Key.DS), JInt(0)>>
PathDM1 == PathDS \o <<JStr(Key.SH), JInt(0), JStr(Key.DM1)>>
PathD0  == PathDS \o <<JStr(Key.ValueDicts), JStr(Key.D0)>>
PathDM0 == PathDS \o <<JStr(Key.PH), JInt(0), JStr(Key.DM0)>>

\* ---------------------------------------------------------- extract_years
\* The loop body: str(G1) of an item whose G1 is present and not None.
YearLabel(g1) == IF g1.t # "null" THEN <<PyStr(g1)>> ELSE <<>>
RECURSIVE YearLabels(_)
YearLabels(items) ==
    IF Len(items) = 0 THEN <<>>
    ELSE YearLabel(DictGetOr(Head(items), Key.G1, JNull)) \o YearLabels(Tail(items))

\* item.get(...) raises AttributeError on anything but a dict.
AllDicts(items) == \A i \in 1..Len(items) : items[i].t = "dict"

YearsFrom(it) == IF ~it.ok \/ ~AllDicts(it.val) THEN Raised ELSE Ok(YearLabels(it.val))
\* for item in dm1 or []
YearsOf(dm1) == YearsFrom(IF Truthy(dm1) THEN Iterate(dm1) ELSE Ok(<<>>))
extract_years(d) == YearsOf(get_nested(d, PathDM1, JList(<<>>)))

\* ---------------------------------------------------- extract_month_names
Mon(a, b, c) == JStr(<<a, b, c>>)
DefaultMonths == <<Mon("J", "a", "n"), Mon("F", "e", "b"), Mon("M", "a", "r"),
                   Mon("A", "p", "r"), Mon("M", "a", "y"), Mon("J", "u", "n"),
                   Mon("J", "u", "l"), Mon("A", "u", "g"), Mon("S", "e", "p"),
                   Mon("O", "c", "t"), Mon("N", "o", "v"), Mon("D", "e", "c")>>

MonthsFrom(ms) == IF ms.t = "list" /\ Len(ms.v) = 12 THEN ms.v ELSE DefaultMonths
extract_month_names(d) == MonthsFrom(get_nested(d, PathD0, JNull))

\* ----------------------------------------------------------------- sorted
\* Ordering of two sort keys.  Numbers order among themselves, str among
\* themselves; None and dict order with nothing, and a number does not
\* order with a str (TypeError).
KeyClass(j) ==
    CASE j.t \in {"int", "bool", "float"} -> "num"
      [] j.t = "str"                      -> "str"
      [] j.t \in {"null", "dict"}         -> "unorderable"
NumVal(j) == IF j.t = "float" THEN j.v ELSE IntVal(j) * Scale
KeyLess(a, b) == IF KeyClass(a) = "num" THEN NumVal(a) < NumVal(b) ELSE StrLess(a.v, b.v)

\* sorted() compares only when there are two items or more; n items whose
\* keys have the given classes.
KeysOrderable(n, classes) ==
    \/ n < 2
    \/ /\ "unorderable" \notin classes
       /\ Cardinality(classes) <= 1

\* Stable insertion of [key, item] pairs.
RECURSIVE InsertPair(_, _)
InsertPair(sorted, p) ==
    IF Len(sorted) = 0 THEN <<p>>
    ELSE IF KeyLess(p.key, Head(sorted).key) THEN <<p>> \o sorted
    ELSE <<Head(sorted)>> \o InsertPair(Tail(sorted), p)
RECURSIVE StableSort(_)
StableSort(pairs) ==
    IF Len(pairs) = 0 THEN <<>>
    ELSE InsertPair(StableSort(SubSeq(pairs, 1, Len(pairs) - 1)), pairs[Len(pairs)])

\* -------------------------------------------------- extract_month_entries
sort_key(item) == DictGetOr(item, Key.G0, JInt(0))

Items(s) == [i \in 1..Len(s) |-> s[i].item]
SortEntries(pairs) ==
    IF ~KeysOrderable(Len(pairs), {KeyClass(pairs[i].key) : i \in 1..Len(pairs)})
    THEN Raised
    ELSE Ok(Items(StableSort(pairs)))
Keyed(items) == [i \in 1..Len(items) |-> [key |-> sort_key(items[i]), item |-> items[i]]]
EntriesFrom(it) ==
    IF ~it.ok \/ ~AllDicts(it.val) THEN Raised ELSE SortEntries(Keyed(it.val))
extract_month_entries(d) == EntriesFrom(Iterate(get_nested(d, PathDM0, JList(<<>>))))

\* --------------------------------------------------------- coerce_numeric
Nothing == [ok |-> FALSE]          \* None

CoerceStr(s) == IF Len(s) = 0 THEN Nothing ELSE ParseFloat(RemoveChar(s, ","))
coerce_numeric(val) ==
    CASE val.t \in {"int", "bool"} -> Ok(IntVal(val) * Scale)
      [] val.t = "float"           -> Ok(val.v)
      [] val.t = "nonfinite"       -> Nothing
      [] val.t = "str"             -> CoerceStr(Strip(val.v))
      [] OTHER                     -> Nothing

\* -------------------------------------------------------- pick_metric_key
IsMKey(k) == Len(k) > 0 /\ Head(k) = "M"                 \* k.startswith("M")
FirstMKey(kvs) ==
    kvs[CHOOSE i \in 1..Len(kvs) :
            IsMKey(kvs[i].k) /\ \A j \in 1..(i - 1) : ~IsMKey(kvs[j].k)].k
pick_metric_key(x_item) ==
    IF HasKey(x_item, Key.M0) THEN Ok(Key.M0)
    ELSE IF \E i \in 1..Len(x_item.v) : IsMKey(x_item.v[i].k) THEN Ok(FirstMKey(x_item.v))
    ELSE Nothing

\* --------------------------------------------------- extract_route_values
Column(year, month) == year \o <<"-">> \o PyStr(month)   \* f"{year}-{month}"

EmptyMap == [k \in {} |-> 0]
Put(vals, key, num) ==
    [k \in (DOMAIN vals) \cup {key} |-> IF k = key THEN num ELSE vals[k]]

\* m_idx = m_entry.get("G0") and its test; months[m_idx].
MonthIndexIn(m_idx, n) == IsInt(m_idx) /\ IntVal(m_idx) >= 0 /\ IntVal(m_idx) < n
month_index_ok(ms, e) == MonthIndexIn(DictGetOr(e, Key.G0, JNull), Len(ms))
month_name_of(ms, e) == ms[IntVal(DictGet(e, Key.G0)) + 1]

\* enumerate(m_entry.get("X", []))
x_list_items(e) == Iterate(DictGetOr(e, Key.X, JList(<<>>)))

\* offset = 0 at the head of every month entry, whatever it was before.
FreshOffset(carried) == 0

\* Faults of the jump marker: the offset is overwritten, not maximised; the
\* marker is taken as the offset itself.
JumpOverwrites(off, i, p) == IF IsInt(i) THEN IntVal(i) - p ELSE off
JumpAbsolute(off, i, p)   == IF IsInt(i) THEN Max(off, IntVal(i)) ELSE off

\* The jump marker: offset = max(offset, I - x_pos) when I is an int.
JumpTo(off, i, p) == IF IsInt(i) THEN Max(off, IntVal(i) - p) ELSE off
NextOffset(off, x_item, p) == JumpTo(off, DictGetOr(x_item, Key.I, JNull), p)

\* The metric of an item: coerce_numeric of the value under the metric key.
MetricAt(x_item, mk) ==
    IF mk.ok /\ HasKey(x_item, mk.val) THEN coerce_numeric(DictGet(x_item, mk.val))
    ELSE Nothing
metric_value(x_item) == MetricAt(x_item, pick_metric_key(x_item))

\* What one iteration leaves: the offset, the values, whether it reached a
\* year_idx, and whether it recorded a cell.
StepResult(off, vals, computed, year_idx, recorded) ==
    [offset |-> off, values |-> vals, computed |-> computed, year_idx |-> year_idx,
     recorded |-> recorded]

\* The iteration once the offset is known.
Resolve(ys, mn, o2, vals, year_idx, num) ==
    IF year_idx < 0 \/ year_idx >= Len(ys) THEN StepResult(o2, vals, TRUE, year_idx, FALSE)
    ELSE IF ~num.ok THEN StepResult(o2, vals, TRUE, year_idx, FALSE)
    ELSE StepResult(o2, Put(vals, Column(ys[year_idx + 1], mn), num.val), TRUE,
                    year_idx, TRUE)
WithOffset(ys, mn, o2, vals, p, x_item) ==
    Resolve(ys, mn, o2, vals, p + o2, metric_value(x_item))

\* One iteration of the inner loop at position p with the running offset.
XStep(ys, mn, off, vals, p, x_item) ==
    IF x_item.t # "dict" THEN StepResult(off, vals, FALSE, 0, FALSE)
    ELSE WithOffset(ys, mn, NextOffset(off, x_item, p), vals, p, x_item)

\* The inner loop over one X list, from position p.
RECURSIVE WalkX(_, _, _, _, _, _)
WalkXFrom(ys, mn, items, p, r) == WalkX(ys, mn, items, p, r.offset, r.values)
WalkX(ys, mn, items, p, off, vals) ==
    IF p >= Len(items) THEN [ok |-> TRUE, offset |-> off, values |-> vals]
    ELSE WalkXFrom(ys, mn, items, p + 1, XStep(ys, mn, off, vals, p, items[p + 1]))

\* One iteration of the outer loop.
EntryWalk(ys, mn, it, off, vals) ==
    IF ~it.ok THEN [ok |-> FALSE, offset |-> off, values |-> vals]
    ELSE WalkX(ys, mn, it.val, 0, FreshOffset(off), vals)
EntryStep(ys, ms, e, off, vals) ==
    IF ~month_index_ok(ms, e) THEN [ok |-> TRUE, offset |-> off, values |-> vals]
    ELSE EntryWalk(ys, month_name_of(ms, e), x_list_items(e), off, vals)

\* The outer loop over the sorted month entries.
RECURSIVE WalkEntries(_, _, _, _, _)
AfterEntry(ys, ms, rest, r) ==
    IF ~r.ok THEN Raised ELSE WalkEntries(ys, ms, rest, r.offset, r.values)
WalkEntries(ys, ms, entries, off, vals) ==
    IF Len(entries) = 0 THEN Ok(vals)
    ELSE AfterEntry(ys, ms, Tail(entries), EntryStep(ys, ms, Head(entries), off, vals))

\* (years, values) of one document, or Raised.
Returned(yv, r) == IF ~r.ok THEN Raised ELSE Ok([years |-> yv, values |-> r.val])
RouteValues(ys, ms, es) ==
    IF ~ys.ok \/ ~es.ok THEN Raised
    ELSE Returned(ys.val, WalkEntries(ys.val, ms, es.val, 0, EmptyMap))
extract_route_values(d) ==
    RouteValues(extract_years(d), extract_month_names(d), extract_month_entries(d))

\* ----------------------------------------------------------- build_header
IntOrStr(r, y) == IF r.ok THEN JInt(r.val) ELSE JStr(y)
try_int(y) == IntOrStr(ParseInt(y), y)

\* Every order sorted() can return for the set S of labels: ascending by
\* try_int, labels of equal key in the set's (arbitrary) iteration order.
Least(S) == {x \in S : \A y \in S : ~KeyLess(try_int(y), try_int(x))}
RECURSIVE SortedOrders(_)
SortedOrders(S) ==
    IF S = {} THEN {<<>>}
    ELSE UNION {{<<m>> \o r : r \in SortedOrders(S \ {m})} : m \in Least(S)}

SortedSet(S) ==
    IF ~KeysOrderable(Cardinality(S), {KeyClass(try_int(y)) : y \in S}) THEN Raised
    ELSE Ok(SortedOrders(S))
years_sorted(ays) == SortedSet(Range(ays))

RouteLabel == <<"R", "o", "u", "t", "e">>

HeaderOf(ys, ms) ==
    <<RouteLabel>> \o
    [i \in 1..(Len(ys) * Len(ms)) |->
        Column(ys[((i - 1) \div Len(ms)) + 1], ms[((i - 1) % Len(ms)) + 1])]

\* The headers build_header can return, or Raised.
HeadersFor(r, ms) == IF ~r.ok THEN Raised ELSE Ok({HeaderOf(ys, ms) : ys \in r.val})
build_header(ays, ms) == HeadersFor(years_sorted(ays), ms)

\* --------------------------------------------------------------- emission
Abs(a) == IF a < 0 THEN -a ELSE a
RoundDiv(a, d) == (a + (d \div 2)) \div d          \* a >= 0, to nearest
RECURSIVE ZeroPad(_, _)
ZeroPad(s, n) == IF Len(s) >= n THEN s ELSE ZeroPad(<<"0">> \o s, n)

\* f"{x:.<places>f}" of the number q / 10^places.
Fixed(q, negative, places) ==
    (IF negative THEN <<"-">> ELSE <<>>) \o NatToStr(q \div 10^places) \o <<".">>
        \o ZeroPad(NatToStr(q % 10^places), places)

\* f"{val * 100:.2f}" when as_percent, else f"{val:.4f}".  Both round val to
\* four decimal places (exact ties, which depend on the binary expansion of
\* the float, are not among the inputs of the model).
format_cell(val, pct) ==
    IF pct THEN Fixed(RoundDiv(Abs(val), 10), val < 0, 2)
    ELSE Fixed(RoundDiv(Abs(val), 10), val < 0, 4)

Blank == <<>>                                       \* ""

\* Fault of the emitter: a cell is tested for truth, so a value of 0 is blank.
row_for_truthy(route_name, values_map, hdr, pct) ==
    <<route_name>> \o
    [c \in 1..(Len(hdr) - 1) |->
        IF hdr[c + 1] \in DOMAIN values_map /\ values_map[hdr[c + 1]] # 0
        THEN format_cell(values_map[hdr[c + 1]], pct) ELSE Blank]

\* One output row.
row_for(route_name, values_map, hdr, pct) ==
    <<route_name>> \o
    [c \in 1..(Len(hdr) - 1) |->
        IF hdr[c + 1] \in DOMAIN values_map
        THEN format_cell(values_map[hdr[c + 1]], pct) ELSE Blank]

\* ------------------------------------------- guess_route_name_from_filename
\* A path is [dir, base, ext]; os.path.splitext(os.path.basename(path))[0]
\* is its base.  TIMESTAMP_TAIL_RE: _dddd_dd_dd-dd_dd at the end of the base.
TimestampShape == <<"_", "d", "d", "d", "d", "_", "d", "d", "_", "d", "d", "-",
                    "d", "d", "_", "d", "d">>
HasTimestampTail(base) ==
    /\ Len(base) >= Len(TimestampShape)
    /\ \A i \in 1..Len(TimestampShape) :
          LET c == base[Len(base) - Len(TimestampShape) + i]
          IN  IF TimestampShape[i] = "d" THEN IsDigit(c) ELSE c = TimestampShape[i]

guess_route_name_from_filename(path) ==
    IF HasTimestampTail(path.base)
    THEN SubSeq(path.base, 1, Len(path.base) - Len(TimestampShape))
    ELSE path.base

\* --------------------------------------------------------------- documents
\* The input documents the model draws from: the well-formed shapes of the
\* export and the malformed shapes the extraction paths can meet.
DocOf(dsfields) ==
    JDict(<<KV(Key.results, JList(<<JDict(<<KV(Key.result, JDict(<<KV(Key.data,
        JDict(<<KV(Key.dsr, JDict(<<KV(Key.DS, JList(<<JDict(dsfields)>>))>>))>>))>>))>>)>>))>>)
SH(dm1) == KV(Key.SH, JList(<<JDict(<<KV(Key.DM1, dm1)>>)>>))
PH(dm0) == KV(Key.PH, JList(<<JDict(<<KV(Key.DM0, dm0)>>)>>))
VD(d0)  == KV(Key.ValueDicts, JDict(<<KV(Key.D0, d0)>>))

Year(label)  == JDict(<<KV(Key.G1, JStr(label))>>)
Entry(g0, x) == JDict(<<KV(Key.G0, JInt(g0)), KV(Key.X, x)>>)
Obs(u)       == JDict(<<KV(Key.M0, JFloat(u))>>)
ObsI(i, u)   == JDict(<<KV(Key.I, JInt(i)), KV(Key.M0, JFloat(u))>>)

OwnMonths == JList([k \in 1..12 |-> JStr(NatToStr(k))])   \* "1" .. "12"

Y2019 == <<"2", "0", "1", "9">>
Y2020 == <<"2", "0", "2", "0">>
Y2021 == <<"2", "0", "2", "1">>

Document_A == DocOf(<<SH(JList(<<Year(Y2019), Year(Y2020)>>)),
                      PH(JList(<<Entry(0, JList(<<Obs(50000), Obs(60000)>>))>>))>>)
Document_B == DocOf(<<SH(JList(<<Year(Y2019), Year(Y2020)>>)),
                      PH(JList(<<Entry(0, JList(<<ObsI(1, 90000)>>))>>))>>)
Documents ==
    <<Document_A,
      Document_B,
      \* month entries out of order, a zero value
      DocOf(<<SH(JList(<<Year(Y2019)>>)),
          PH(JList(<<Entry(1, JList(<<Obs(70004)>>)),
          Entry(0, JList(<<Obs(0)>>))>>))>>),
      \* metric under a secondary M-key, as text with a grouping comma
      DocOf(<<SH(JList(<<Year(Y2020)>>)),
          PH(JList(<<Entry(0, JList(<<JDict(<<KV(Key.C, JInt(1)),
          KV(Key.M1, JStr(<<"1", ",", "2", "3", "4", ".", "5", "e", "-", "3">>))>>)>>))>>))>>),
      \* no dsr structure at all
      JDict(<<KV(Key.results, JList(<<JDict(<<KV(Key.result,
          JDict(<<KV(Key.data, JDict(<<>>))>>))>>)>>))>>),
      \* a month dictionary of its own: "1" .. "12"
      DocOf(<<SH(JList(<<Year(Y2020)>>)), VD(OwnMonths),
          PH(JList(<<Entry(0, JList(<<Obs(80000)>>))>>))>>),
      \* a month dictionary of twelve equal labels
      DocOf(<<SH(JList(<<Year(Y2019)>>)),
          VD(JList([k \in 1..12 |-> Mon("J", "a", "n")])),
          PH(JList(<<Entry(0, JList(<<Obs(40000)>>))>>))>>),
      \* a year label that is not a number beside one that is
      DocOf(<<SH(JList(<<Year(Y2019), Year(<<"n", "a">>)>>)),
          PH(JList(<<Entry(0, JList(<<Obs(10000), Obs(20000)>>))>>))>>),
      \* no year label is a number
      DocOf(<<SH(JList(<<Year(<<"b">>), Year(<<"a">>)>>)),
          PH(JList(<<Entry(0, JList(<<Obs(10000), Obs(20000)>>))>>))>>),
      \* numeric year labels whose numeric and lexical orders differ
      DocOf(<<SH(JList(<<JDict(<<KV(Key.G1, JInt(10))>>),
          JDict(<<KV(Key.G1, JInt(9))>>)>>)),
          PH(JList(<<Entry(0, JList(<<Obs(10000), Obs(20000)>>))>>))>>),
      \* a year item without G1 between two that have one
      DocOf(<<SH(JList(<<Year(Y2019), JDict(<<KV(Key.G1, JNull)>>), Year(Y2021)>>)),
          PH(JList(<<Entry(0, JList(<<Obs(10000), Obs(20000), Obs(30000)>>))>>))>>),
      \* an item of DM1 that is not a dict
      DocOf(<<SH(JList(<<JInt(5)>>)),
          PH(JList(<<Entry(0, JList(<<Obs(10000)>>))>>))>>),
      \* an X that is not a list
      DocOf(<<SH(JList(<<Year(Y2019)>>)),
          PH(JList(<<Entry(0, JInt(5))>>))>>),
      \* cells that cannot be coerced
      DocOf(<<SH(JList(<<Year(Y2019), Year(Y2020)>>)),
          PH(JList(<<Entry(0, JList(<<JDict(<<KV(Key.M0, JStr(<<"x">>))>>),
          JDict(<<KV(Key.M0, JNonFinite)>>)>>))>>))>>)>>
NDocs == Len(Documents)

\* extract_route_values / extract_month_names of each document.
Decoded    == [k \in 1..NDocs |-> extract_route_values(Documents[k])]
MonthNames == [k \in 1..NDocs |-> extract_month_names(Documents[k])]

\* ==================================================================== main
PathPool ==
    <<[dir |-> "exports", ext |-> ".json",
       base |-> <<"6", "1", "_", "2", "0", "2", "6", "_", "0", "2", "_", "0", "2",
                  "-", "1", "9", "_", "4", "8">>],
      [dir |-> "exports", ext |-> ".json", base |-> <<"7", "1", "A">>],
      [dir |-> "exports", ext |-> ".json",
       base |-> <<"P", "1", "_", "2", "0", "2", "6", "_", "0", "2", "_", "0", "3",
                  "-", "0", "7", "_", "1", "5">>],
      [dir |-> "exports", ext |-> ".json", base |-> <<"Y", "4", "9">>],
      [dir |-> "exports", ext |-> ".json", base |-> <<"Y", "4", "9", "x">>]>>

NoMonths == <<>>

\* Fault of the first pass: only the first document's years are kept.
extend_years_first_only(ays, ys) == IF Len(ays) = 0 THEN ys ELSE ays

\* all_years.extend(years) when years is not empty.
extend_years(ays, ys) == IF Len(ys) > 0 THEN ays \o ys ELSE ays

\* canonical_months is taken from the first document decoded.
first_months(cm, k) == IF cm = NoMonths THEN MonthNames[k] ELSE cm

\* The fallback when no document was decoded.
months_or_default(cm) == IF cm = NoMonths THEN DefaultMonths ELSE cm

DecIdle ==
    /\ d_pc = "idle" /\ ds = 0 /\ years = <<>> /\ months = <<>> /\ n_entries = 0
    /\ m_entry = JNull /\ x_src = [lazy |-> FALSE, items |-> <<>>]
    /\ month_name = JNull /\ x_pos = 0 /\ offset = 0 /\ values = EmptyMap
    /\ last = [valid |-> FALSE] /\ prev = [has |-> FALSE]

Init ==
    /\ \E n \in 0..MaxFiles : \E c \in [1..n -> 0..NDocs] :
          file_paths = [i \in 1..n |-> [path |-> PathPool[i], content |-> c[i]]]
    /\ as_percent \in BOOLEAN
    /\ pc = "start" /\ fi = 1
    /\ all_years = <<>> /\ canonical_months = NoMonths /\ per_route_rows = <<>>
    /\ header = <<>> /\ out_header = <<>> /\ out_rows = <<>> /\ skipped = <<>>
    /\ error = "none"
    /\ DecIdle

\* if not file_paths: print(...); return
NoInput ==
    /\ pc = "start" /\ Len(file_paths) = 0
    /\ pc' = "halted"
    /\ UNCHANGED <<file_paths, as_percent, fi, all_years, canonical_months,
                   per_route_rows, header, out_header, out_rows, skipped, error>>
    /\ UNCHANGED decvars

\* the first pass begins
BeginPass ==
    /\ pc = "start" /\ Len(file_paths) > 0
    /\ pc' = "loop"
    /\ UNCHANGED <<file_paths, as_percent, fi, all_years, canonical_months,
                   per_route_rows, header, out_header, out_rows, skipped, error>>
    /\ UNCHANGED decvars

\* open/json.load raised: the file is reported and skipped
SkipFile ==
    /\ pc = "loop" /\ fi <= Len(file_paths)
    /\ file_paths[fi].content = 0
    /\ skipped' = Append(skipped, file_paths[fi].path)
    /\ fi' = fi + 1
    /\ UNCHANGED <<file_paths, as_percent, pc, all_years, canonical_months,
                   per_route_rows, header, out_header, out_rows, error>>
    /\ UNCHANGED decvars

\* one iteration of the first pass on a document that decodes
DecodeFile ==
    /\ pc = "loop" /\ fi <= Len(file_paths)
    /\ file_paths[fi].content # 0
    /\ LET k == file_paths[fi].content IN
       /\ Decoded[k].ok
       /\ all_years' = extend_years(all_years, Decoded[k].val.years)
       /\ canonical_months' = first_months(canonical_months, k)
       /\ per_route_rows' = Append(per_route_rows,
              [route_name |-> guess_route_name_from_filename(file_paths[fi].path),
               values_map |-> Decoded[k].val.values])
    /\ fi' = fi + 1
    /\ UNCHANGED <<file_paths, as_percent, pc, header, out_header, out_rows,
                   skipped, error>>
    /\ UNCHANGED decvars

\* extract_route_values raised: it is called outside the try block
DecodeFileRaises ==
    /\ pc = "loop" /\ fi <= Len(file_paths)
    /\ file_paths[fi].content # 0
    /\ ~Decoded[file_paths[fi].content].ok
    /\ pc' = "crashed" /\ error' = "extract_route_values"
    /\ UNCHANGED <<file_paths, as_percent, fi, all_years, canonical_months,
                   per_route_rows, header, out_header, out_rows, skipped>>
    /\ UNCHANGED decvars

\* after the loop: the month fallback, then build_header
BuildHeader ==
    /\ pc = "loop" /\ fi > Len(file_paths)
    /\ LET cm == months_or_default(canonical_months)
           r  == build_header(all_years, cm)
       IN  /\ r.ok
           /\ canonical_months' = cm
           /\ \E h \in r.val : header' = h
    /\ pc' = "write"
    /\ UNCHANGED <<file_paths, as_percent, fi, all_years, per_route_rows,
                   out_header, out_rows, skipped, error>>
    /\ UNCHANGED decvars

\* sorted() inside build_header raised
BuildHeaderRaises ==
    /\ pc = "loop" /\ fi > Len(file_paths)
    /\ ~build_header(all_years, months_or_default(canonical_months)).ok
    /\ canonical_months' = months_or_default(canonical_months)
    /\ pc' = "crashed" /\ error' = "build_header"
    /\ UNCHANGED <<file_paths, as_percent, fi, all_years, per_route_rows,
                   header, out_header, out_rows, skipped>>
    /\ UNCHANGED decvars

\* the output is opened and the header row written
WriteHeader ==
    /\ pc = "write"
    /\ out_header' = header
    /\ pc' = "rows"
    /\ UNCHANGED <<file_paths, as_percent, fi, all_years, canonical_months,
                   per_route_rows, header, out_rows, skipped, error>>
    /\ UNCHANGED decvars

\* one iteration of the second pass
WriteRow ==
    /\ pc = "rows" /\ Len(out_rows) < Len(per_route_rows)
    /\ LET r == per_route_rows[Len(out_rows) + 1]
       IN  out_rows' = Append(out_rows,
                              row_for(r.route_name, r.values_map, header, as_percent))
    /\ UNCHANGED <<file_paths, as_percent, pc, fi, all_years, canonical_months,
                   per_route_rows, header, out_header, skipped, error>>
    /\ UNCHANGED decvars

\* the output is closed and the count printed
Finish ==
    /\ pc = "rows" /\ Len(out_rows) = Len(per_route_rows)
    /\ pc' = "done"
    /\ UNCHANGED <<file_paths, as_percent, fi, all_years, canonical_months,
                   per_route_rows, header, out_header, out_rows, skipped, error>>
    /\ UNCHANGED decvars

Next ==
    \/ NoInput
    \/ BeginPass
    \/ SkipFile
    \/ DecodeFile
    \/ DecodeFileRaises
    \/ BuildHeader
    \/ BuildHeaderRaises
    \/ WriteHeader
    \/ WriteRow
    \/ Finish

Spec == Init /\ [][Next]_vars

\* ==================================================== extract_route_values
\* One call of extract_route_values walked iteration by iteration.  The
\* year list and the month dictionary of the document are drawn at the
\* call; its month entries come in the order extract_month_entries returns
\* them (ascending sort key), and the items of a list X are drawn as the
\* inner loop reaches them.
MainIdle ==
    /\ file_paths = <<>> /\ as_percent = FALSE /\ pc = "off" /\ fi = 1
    /\ all_years = <<>> /\ canonical_months = NoMonths /\ per_route_rows = <<>>
    /\ header = <<>> /\ out_header = <<>> /\ out_rows = <<>> /\ skipped = <<>>
    /\ error = "none"

\* What DM1 and ValueDicts.D0 hold.
AxesChoices ==
    <<[dm1 |-> JList(<<Year(Y2019), Year(Y2020)>>), d0 |-> JNull],
      [dm1 |-> JList(<<Year(Y2019), Year(Y2020), Year(Y2021)>>), d0 |-> OwnMonths],
      [dm1 |-> JList(<<Year(Y2019), JDict(<<KV(Key.G1, JNull)>>), Year(Y2021)>>),
       d0 |-> JNull],
      [dm1 |-> JList(<<JInt(5)>>), d0 |-> JNull],
      [dm1 |-> JNull, d0 |-> OwnMonths]>>
AxesDoc(a) == DocOf(<<SH(AxesChoices[a].dm1), VD(AxesChoices[a].d0)>>)

\* What a month entry holds under G0 (absent: no such key) and under X
\* (lazy: a list whose items are drawn one by one).
Absent == [t |-> "absent"]
G0Choices == <<Absent, JInt(-1), JInt(0), JInt(1), JInt(12)>>
XChoices  == <<[lazy |-> TRUE,  x |-> JList(<<>>)],
               [lazy |-> FALSE, x |-> Absent],
               [lazy |-> FALSE, x |-> JNull],
               [lazy |-> FALSE, x |-> JInt(5)],
               [lazy |-> FALSE, x |-> JDict(<<KV(Key.M0, JFloat(50000))>>)],
               [lazy |-> FALSE, x |-> JStr(<<"a", "b">>)]>>
Field(k, j) == IF j.t = "absent" THEN <<>> ELSE <<KV(k, j)>>
MEntry(g0, x) == JDict(Field(Key.G0, g0) \o Field(Key.X, x))

\* The items a list X can hold.
XItemChoices ==
    <<JInt(7),
      Obs(50000),
      ObsI(1, 90000),
      ObsI(2, 50000),
      ObsI(-1, 90000),
      JDict(<<KV(Key.I, JInt(3))>>),
      JDict(<<KV(Key.I, JStr(<<"2">>)), KV(Key.M1, JInt(1))>>)>>

NoSource == [lazy |-> FALSE, items |-> <<>>]
NoStep   == [valid |-> FALSE]
NoPrev   == [has |-> FALSE]

DecodeInit ==
    /\ MainIdle
    /\ d_pc = "call"
    /\ ds \in 1..Len(AxesChoices)
    /\ years = <<>> /\ months = <<>> /\ n_entries = 0
    /\ m_entry = JNull /\ x_src = NoSource
    /\ month_name = JNull /\ x_pos = 0 /\ offset = 0 /\ values = EmptyMap
    /\ last = NoStep /\ prev = NoPrev

\* years = extract_years(ds); months = extract_month_names(ds)
ExtractAxes ==
    /\ d_pc = "call"
    /\ extract_years(AxesDoc(ds)).ok
    /\ years' = extract_years(AxesDoc(ds)).val
    /\ months' = extract_month_names(AxesDoc(ds))
    /\ d_pc' = "months"
    /\ UNCHANGED <<ds, n_entries, m_entry, x_src, month_name, x_pos, offset, values,
                   last, prev>>
    /\ UNCHANGED mainvars

ExtractAxesRaises ==
    /\ d_pc = "call"
    /\ ~extract_years(AxesDoc(ds)).ok
    /\ d_pc' = "raised"
    /\ UNCHANGED <<ds, years, months, n_entries, m_entry, x_src, month_name, x_pos,
                   offset, values, last, prev>>
    /\ UNCHANGED mainvars

\* The next month entry is one the sort can have put here.
InSortOrder(e) ==
    IF n_entries = 0 THEN TRUE ELSE ~KeyLess(sort_key(e), sort_key(m_entry))

\* a month entry whose G0 is no index into months: continue
SkipEntry(e) ==
    /\ d_pc = "months" /\ n_entries < MaxEntries /\ InSortOrder(e)
    /\ ~month_index_ok(months, e)
    /\ m_entry' = MEntry(sort_key(e), Absent)
    /\ n_entries' = n_entries + 1
    /\ UNCHANGED <<d_pc, ds, years, months, x_src, month_name, x_pos, offset, values,
                   last, prev>>
    /\ UNCHANGED mainvars

\* enumerate(x_list) raised
BadXList(e) ==
    /\ d_pc = "months" /\ n_entries < MaxEntries /\ InSortOrder(e)
    /\ month_index_ok(months, e)
    /\ ~x_list_items(e).ok
    /\ m_entry' = MEntry(sort_key(e), Absent)
    /\ d_pc' = "raised"
    /\ UNCHANGED <<ds, years, months, n_entries, x_src, month_name, x_pos, offset,
                   values, last, prev>>
    /\ UNCHANGED mainvars

\* the head of the outer loop body: month_name, x_list, offset = 0
BeginEntry(e, lazy) ==
    /\ d_pc = "months" /\ n_entries < MaxEntries /\ InSortOrder(e)
    /\ month_index_ok(months, e)
    /\ x_list_items(e).ok
    /\ m_entry' = MEntry(sort_key(e), Absent)
    /\ month_name' = month_name_of(months, e)
    /\ x_src' = [lazy |-> lazy, items |-> x_list_items(e).val]
    /\ offset' = FreshOffset(offset)
    /\ x_pos' = 0
    /\ last' = NoStep /\ prev' = NoPrev
    /\ d_pc' = "xloop"
    /\ UNCHANGED <<ds, years, months, n_entries, values>>
    /\ UNCHANGED mainvars

TakeEntry ==
    \E g \in 1..Len(G0Choices), c \in 1..Len(XChoices) :
        \/ SkipEntry(MEntry(G0Choices[g], XChoices[c].x))
        \/ BadXList(MEntry(G0Choices[g], XChoices[c].x))
        \/ BeginEntry(MEntry(G0Choices[g], XChoices[c].x), XChoices[c].lazy)

\* one iteration of the inner loop on x_item
Iteration(x_item, r) ==
    /\ offset' = r.offset
    /\ values' = r.values
    /\ last' = [valid |-> TRUE, p |-> x_pos, item |-> x_item, off_before |-> offset,
                before |-> values, offset |-> r.offset, computed |-> r.computed,
                year_idx |-> r.year_idx, recorded |-> r.recorded]
    /\ prev' = IF last.valid /\ last.computed
               THEN [has |-> TRUE, year_idx |-> last.year_idx] ELSE prev
    /\ x_pos' = x_pos + 1
    /\ UNCHANGED <<d_pc, ds, years, months, n_entries, m_entry, x_src, month_name>>
    /\ UNCHANGED mainvars

StepOn(x_item) ==
    Iteration(x_item, XStep(years, month_name, offset, values, x_pos, x_item))

StepX ==
    /\ d_pc = "xloop" /\ x_pos < MaxX
    /\ IF x_src.lazy
       THEN \E i \in 1..Len(XItemChoices) : StepOn(XItemChoices[i])
       ELSE x_pos < Len(x_src.items) /\ StepOn(x_src.items[x_pos + 1])

\* the X list is exhausted
EndEntry ==
    /\ d_pc = "xloop"
    /\ IF x_src.lazy THEN TRUE ELSE x_pos >= Len(x_src.items)
    /\ d_pc' = "months"
    /\ n_entries' = n_entries + 1
    /\ x_src' = NoSource /\ month_name' = JNull /\ x_pos' = 0
    /\ last' = NoStep /\ prev' = NoPrev
    /\ UNCHANGED <<ds, years, months, m_entry, offset, values>>
    /\ UNCHANGED mainvars

\* month_entries is exhausted: return years, values
Return ==
    /\ d_pc = "months"
    /\ d_pc' = "returned"
    /\ UNCHANGED <<ds, years, months, n_entries, m_entry, x_src, month_name, x_pos,
                   offset, values, last, prev>>
    /\ UNCHANGED mainvars

DecodeNext ==
    \/ ExtractAxes
    \/ ExtractAxesRaises
    \/ TakeEntry
    \/ StepX
    \/ EndEntry
    \/ Return

DecodeSpec == DecodeInit /\ [][DecodeNext]_vars

\* ================================================================== claims
\* ---- helpers of the statements
\* The (1-based) file of the k-th entry of per_route_rows: the k-th file
\* that could be read.
Readable(i) == file_paths[i].content # 0
FileOfRow(k) ==
    CHOOSE i \in 1..Len(file_paths) :
        Readable(i) /\ Cardinality({j \in 1..i : Readable(j)}) = k
DocOfFile(i) == Decoded[file_paths[i].content].val
HeaderBuilt == header # <<>>
\* The year label of each block of twelve columns of the header.
HeaderYears ==
    [r \in 1..((Len(header) - 1) \div 12) |->
        CHOOSE y \in Range(all_years) :
            Column(y, canonical_months[1]) = header[12 * (r - 1) + 2]]
AllNumeric(S) == \A y \in S : ParseInt(y).ok
\* ascending: numerically when every label is an integer, else lexically
ClaimOrdered(ys) ==
    \A i, j \in 1..Len(ys) :
        i < j => IF AllNumeric(Range(ys))
                 THEN ParseInt(ys[i]).val <= ParseInt(ys[j]).val
                 ELSE ~StrLess(ys[j], ys[i])
Marker(item) == DictGetOr(item, Key.I, JNull)
HasMarker(step) == step.valid /\ step.item.t = "dict" /\ IsInt(Marker(step.item))
JanLabel == Mon("J", "a", "n")

\* C1: extract_years, extract_month_names, extract_month_entries and
\* extract_route_values never raise, whatever the shape of the document.
ExtractionNeverRaises == d_pc # "raised"

\* C2: with at least one input file, no partial failure ends the run before
\* the output is written; only an empty file list halts it.
PartialFailureNeverAborts ==
    pc \in {"halted", "crashed"} => Len(file_paths) = 0

\* C3: inside one month entry the offset never decreases and the year_idx
\* values of successive positions never decrease, whatever the jump markers;
\* every month entry starts from offset 0.
OffsetMonotone ==
    /\ (d_pc = "xloop" /\ x_pos = 0) => offset = 0
    /\ last.valid =>
          /\ last.off_before >= 0
          /\ last.offset >= last.off_before
          /\ offset = last.offset
          /\ last.computed => last.year_idx = last.p + last.offset
          /\ (last.computed /\ prev.has) => last.year_idx >= prev.year_idx
\* C3 happens: in a second month entry, a marker below the index already
\* reached (a negative one) after the offset has grown.
OffsetMonotoneWitness ==
    /\ d_pc = "xloop" /\ n_entries = 1
    /\ HasMarker(last) /\ prev.has
    /\ IntVal(Marker(last.item)) < 0
    /\ last.off_before > 0
    /\ IntVal(Marker(last.item)) < prev.year_idx

\* C4: build_header always returns, with the distinct year labels ascending:
\* numerically when all parse as integers, lexically otherwise.
BuildHeaderSortsAndReturns ==
    /\ error # "build_header"
    /\ HeaderBuilt =>
          /\ Len(header) = 1 + 12 * Cardinality(Range(all_years))
          /\ Range(HeaderYears) = Range(all_years)
          /\ ClaimOrdered(HeaderYears)

\* C5: the header is the identifier column and then, per distinct year in
\* ascending order, the twelve calendar months Jan..Dec; no column repeats.
HeaderCanonical ==
    HeaderBuilt =>
        /\ Len(header) = 1 + 12 * Cardinality(Range(all_years))
        /\ \A i, j \in 1..Len(header) : i # j => header[i] # header[j]
        /\ \A r \in 1..Len(HeaderYears), m \in 1..12 :
              header[12 * (r - 1) + m + 1] = Column(HeaderYears[r], DefaultMonths[m])

\* C6: the header exists only once every file has been decoded or skipped,
\* no row is written before it, and it holds the twelve month columns of
\* every year of every decoded document; of two documents with disjoint year
\* axes, each one's row is blank in the columns of the other's years.
TwoPass ==
    /\ HeaderBuilt <=> pc \in {"write", "rows", "done"}
    /\ HeaderBuilt => fi > Len(file_paths)
    /\ (out_header # <<>> \/ out_rows # <<>>) => (HeaderBuilt /\ out_header = header)
    /\ HeaderBuilt =>
          \A i \in 1..Len(file_paths) :
              Readable(i) =>
                  \A y \in Range(DocOfFile(i).years), m \in 1..12 :
                      Column(y, canonical_months[m]) \in Range(header)
    /\ \A a, b \in 1..Len(out_rows) :
          (Range(DocOfFile(FileOfRow(a)).years)
               \cap Range(DocOfFile(FileOfRow(b)).years) = {}) =>
              \A c \in 2..Len(header) :
                  (\E y \in Range(DocOfFile(FileOfRow(b)).years), m \in 1..12 :
                       header[c] = Column(y, canonical_months[m]))
                  => out_rows[a][c] = Blank
\* C6 happens: two documents with disjoint, non-empty year axes were both
\* emitted, each with a value in its own year.
TwoPassWitness ==
    /\ pc = "done" /\ Len(out_rows) = 2
    /\ DocOfFile(FileOfRow(1)).years = <<Y2019>>
    /\ DocOfFile(FileOfRow(2)).years = <<Y2020>>
    /\ \E c \in 2..Len(header) : out_rows[1][c] # Blank
    /\ \E c \in 2..Len(header) : out_rows[2][c] # Blank

\* C7: every key of every decoded EntityTable is a column of the header, so
\* no decoded cell is dropped at emission.
EveryDecodedCellHasColumn ==
    HeaderBuilt =>
        \A k \in 1..Len(per_route_rows) :
            \A key \in DOMAIN per_route_rows[k].values_map : key \in Range(header)

\* C8: one row per document read, in decoding order; each row is as long as
\* the header: the identifier, then per column the entity's value (0
\* included) when it has one, else the blank.
RowsFollowDecodingOrder ==
    /\ pc = "done" => Len(out_rows) = Cardinality({i \in 1..Len(file_paths) : Readable(i)})
    /\ \A k \in 1..Len(out_rows) :
          /\ Len(out_rows[k]) = Len(out_header)
          /\ out_rows[k][1] = guess_route_name_from_filename(file_paths[FileOfRow(k)].path)
          /\ \A c \in 2..Len(out_header) :
                out_rows[k][c] =
                    IF out_header[c] \in DOMAIN DocOfFile(FileOfRow(k)).values
                    THEN format_cell(DocOfFile(FileOfRow(k)).values[out_header[c]], as_percent)
                    ELSE Blank
\* C8 happens: a file was skipped before a document whose row holds a zero
\* value and a blank.
RowsFollowDecodingOrderWitness ==
    /\ pc = "done" /\ Len(file_paths) = 2 /\ Len(out_rows) = 1
    /\ ~Readable(1)
    /\ \E c \in 2..Len(out_header) :
          /\ out_header[c] \in DOMAIN DocOfFile(2).values
          /\ DocOfFile(2).values[out_header[c]] = 0
          /\ out_rows[1][c] = <<"0", ".", "0", "0", "0", "0">>
    /\ \E c \in 2..Len(out_header) : out_rows[1][c] = Blank

\* C9: a jump marker J at position p makes the offset max(offset, J - p);
\* the observation resolves to year index p + offset >= J and is recorded
\* under that year; the offset stays for the following positions; indices
\* passed over receive nothing from this list; an index outside the year
\* axis discards the observation and decoding goes on.
JumpMarkerResolves ==
    /\ HasMarker(last) =>
          /\ last.offset = Max(last.off_before, IntVal(Marker(last.item)) - last.p)
          /\ last.computed
          /\ last.year_idx = last.p + last.offset
          /\ last.year_idx >= IntVal(Marker(last.item))
          /\ offset = last.offset
          /\ prev.has => prev.year_idx < last.p + last.off_before
          /\ d_pc = "xloop"
          /\ IF last.year_idx < Len(years) /\ metric_value(last.item).ok
             THEN /\ last.recorded
                  /\ values = Put(last.before,
                                  Column(years[last.year_idx + 1], month_name),
                                  metric_value(last.item).val)
             ELSE ~last.recorded /\ values = last.before
    /\ (last.valid /\ last.computed /\ prev.has) => prev.year_idx < last.year_idx
    /\ (/\ last.valid /\ years = <<Y2019, Y2020>> /\ month_name = JanLabel
        /\ last.p = 0 /\ last.item = ObsI(1, 90000) /\ last.before = EmptyMap)
       => values = Put(EmptyMap, Column(Y2020, JanLabel), 90000)
\* C9 happens: after an observation at index 0, a marker skips index 1 and
\* the observation is recorded under the third year.
JumpMarkerResolvesWitness ==
    /\ HasMarker(last) /\ prev.has /\ last.recorded
    /\ last.offset > last.off_before
    /\ last.year_idx = 2 /\ prev.year_idx = 0
    /\ Column(Y2021, month_name) \in DOMAIN values

\* C10: the year axis has one label per item of DM1, the i-th being the G1
\* of the i-th item, also when an item has no G1 or a null one.
YearAxisKeepsPositions ==
    (d_pc \notin {"call", "raised", "idle"} /\ AxesChoices[ds].dm1.t = "list") =>
        /\ Len(years) = Len(AxesChoices[ds].dm1.v)
        /\ \A i \in 1..Len(years) :
              HasKey(AxesChoices[ds].dm1.v[i], Key.G1) =>
                  (DictGet(AxesChoices[ds].dm1.v[i], Key.G1).t # "null" =>
                       years[i] = PyStr(DictGet(AxesChoices[ds].dm1.v[i], Key.G1)))

====
